---- MODULE Spec2Model ----
(***************************************************************************)
(* Model of backend/app.py: the "books" request handlers (list_book,       *)
(* create_book, update_book, delete_book) over the remote "books" table.   *)
(*                                                                         *)
(* The remote table is a sequence of rows kept in the store's order.  A    *)
(* handler is one atomic action in Spec (requests executed one at a time)  *)
(* and is split at its awaits in ConcSpec (requests interleaved at the     *)
(* remote calls).                                                          *)
(***************************************************************************)
EXTENDS Integers, Sequences, FiniteSets, TLC

\* ------------------------------------------------------------- bounds
MaxIds == 2        \* rows the remote store hands an id to
MaxClock == 1      \* readings of datetime.now taken by update_book
MaxPage == 2       \* largest page queried in Spec
MaxLimit == 2      \* largest limit queried in Spec
MaxReqs == 2       \* create requests in flight in ConcSpec
MaxOwned == 15     \* books of the listing user in PageSpec
MaxForeign == 1    \* books of the other user in PageSpec
MaxPageP == 3      \* largest page queried in PageSpec
MaxLimitP == 10    \* largest limit queried in PageSpec

\* ------------------------------------------------------------- values
Users == {"U1", "U2"}
NullUser == "null"                     \* SQL NULL in the user_id column
Names == {"Dune", "Dune2", "X"}
NoDescription == "None"                \* description: Optional[str] = None
Descriptions == {NoDescription, "sci-fi"}
\* Spec draws a create's description and an update's from different values:
\* a row's description then tells whether an update wrote it.
CreateDescriptions == {NoDescription}
UpdateDescriptions == {"sci-fi"}
NeverUpdated == 0                      \* updated_at of a row no update stamped
BookIds == 1..MaxIds

\* What the remote schema puts in user_id when the insert does not send it:
\* NULL, or the id of the session's user (a column default of auth.uid()).
UserIdDefaults == {"null", "auth_uid"}

VARIABLES
  table,          \* the remote "books" table, rows in the store's order
  nextId,         \* next id the remote store assigns
  now,            \* next reading of datetime.now(timezone.utc)
  createdBy,      \* history: id -> the current_user of the create_book call
  userIdDefault,  \* the remote schema's default for books.user_id
  req,            \* the last request handled
  sent,           \* the payload the last request passed to insert/update
  resp,           \* the last response
  reqs,           \* ConcSpec: the create requests in flight
  pc              \* ScenarioSpec: position in the scripted scenario

vars == <<table, nextId, now, createdBy, userIdDefault, req, sent, resp, reqs, pc>>

Min(a, b) == IF a < b THEN a ELSE b

\* ------------------------------------------------------ remote queries
\* Mutant: the select without its user_id filter.
SelectAllUsers(tbl, uid) == tbl

\* .eq("user_id", uid) on select("*")
SelectByUser(tbl, uid) == SelectSeq(tbl, LAMBDA r : r.user_id = uid)

\* .limit(limit).offset(offset): rows offset+1 .. offset+limit of the result
LimitOffset(rows, limit, offset) ==
  SubSeq(rows, offset + 1, Min(offset + limit, Len(rows)))

\* Mutant: the offset counted from page 0.
OffsetFromZero(page, limit) == page * limit

\* offset = (page - 1) * limit
Offset(page, limit) == (page - 1) * limit

\* Mutant: the guard compares the wrong column.
SelectNameWrongColumn(tbl, name) ==
  LET hits == SelectSeq(tbl, LAMBDA r : r.description = name)
  IN  SubSeq([i \in 1..Len(hits) |-> [name |-> hits[i].name]], 1, Min(1, Len(hits)))

\* Mutant: the guard skips the first hit (offset 1 instead of 0).
SelectNameSkipFirst(tbl, name) ==
  LET hits == SelectSeq(tbl, LAMBDA r : r.name = name)
  IN  SubSeq([i \in 1..Len(hits) |-> [name |-> hits[i].name]], 2, Min(2, Len(hits)))

\* tbl.select("name").eq("name", name).limit(1).execute().data
SelectName(tbl, name) ==
  LET hits == SelectSeq(tbl, LAMBDA r : r.name = name)
  IN  LimitOffset([i \in 1..Len(hits) |-> [name |-> hits[i].name]], 1, 0)

\* book.model_dump()
ModelDump(name, description) == [name |-> name, description |-> description]

\* The argument create_book passes to tbl.insert: a fresh book.model_dump();
\* the dict that carries user_id (data) is built and not used.
InsertPayload(name, description, uid) == ModelDump(name, description)

\* The argument update_book passes to tbl.update.
UpdatePayload(name, description, stamp) ==
  [name |-> name, description |-> description, updated_at |-> stamp]

\* The row the store creates for an insert run under authUser's session.
NewRow(payload, authUser, id, dflt) ==
  [id |-> id,
   name |-> payload.name,
   description |-> payload.description,
   user_id |-> IF "user_id" \in DOMAIN payload THEN payload.user_id
               ELSE IF dflt = "auth_uid" THEN authUser ELSE NullUser,
   updated_at |-> NeverUpdated]

\* Mutant: the insert replaces a row of the same name (an upsert on name).
RemoteUpsert(tbl, payload, authUser, id, dflt) ==
  Append(SelectSeq(tbl, LAMBDA r : r.name # payload.name),
         [id |-> id, name |-> payload.name, description |-> payload.description,
          user_id |-> IF dflt = "auth_uid" THEN authUser ELSE NullUser,
          updated_at |-> NeverUpdated])

\* tbl.insert(payload).execute(): the table afterwards
RemoteInsert(tbl, payload, authUser, id, dflt) ==
  Append(tbl, NewRow(payload, authUser, id, dflt))

\* Mutant: the match without its user_id term.
MatchesIdOnly(r, id, uid) == r.id = id

\* .match({"id": id, "user_id": uid}) / .eq("id", id).eq("user_id", uid)
Matches(r, id, uid) == r.id = id /\ r.user_id = uid

\* Mutant: the update matched on user_id alone.
RemoteUpdateAllOfUser(tbl, data, id, uid) ==
  [i \in 1..Len(tbl) |->
     IF tbl[i].user_id = uid
     THEN [tbl[i] EXCEPT !.name = data.name,
                         !.description = data.description,
                         !.updated_at = data.updated_at]
     ELSE tbl[i]]

\* tbl.update(data).match(...).execute(): the table afterwards
RemoteUpdate(tbl, data, id, uid) ==
  [i \in 1..Len(tbl) |->
     IF Matches(tbl[i], id, uid)
     THEN [tbl[i] EXCEPT !.name = data.name,
                         !.description = data.description,
                         !.updated_at = data.updated_at]
     ELSE tbl[i]]

\* ... and its resp.data: the rows updated
UpdatedRows(tbl, data, id, uid) ==
  SelectSeq(RemoteUpdate(tbl, data, id, uid), LAMBDA r : Matches(r, id, uid))

\* Mutant: the delete matched on user_id alone.
RemoteDeleteAllOfUser(tbl, id, uid) == SelectSeq(tbl, LAMBDA r : r.user_id # uid)

\* tbl.delete().eq("id", id).eq("user_id", uid).execute(): the table afterwards
RemoteDelete(tbl, id, uid) == SelectSeq(tbl, LAMBDA r : ~Matches(r, id, uid))

\* ... and its resp.data: the rows deleted
DeletedRows(tbl, id, uid) == SelectSeq(tbl, LAMBDA r : Matches(r, id, uid))

\* ------------------------------------------------------------ records
NoReq == [op |-> "none", user |-> NullUser, book_id |-> 0, name |-> "",
          description |-> NoDescription, page |-> 0, limit |-> 0]
NoPayload == [call |-> "none"]
NoResp == [status |-> 0, detail |-> "", body |-> <<>>]

Ok(body) == [status |-> 200, detail |-> "", body |-> body]
HTTPException(status, detail) == [status |-> status, detail |-> detail, body |-> <<>>]

\* ------------------------------------------------------------ handlers
\* GET /book
ListBook(u, page, limit) ==
  /\ req' = [NoReq EXCEPT !.op = "list", !.user = u, !.page = page, !.limit = limit]
  /\ sent' = NoPayload
  /\ resp' = IF limit < 0 \/ Offset(page, limit) < 0
             THEN HTTPException(500, "remote error")
             ELSE Ok(LimitOffset(SelectByUser(table, u), limit, Offset(page, limit)))
  /\ UNCHANGED <<table, nextId, now, createdBy, userIdDefault>>

\* POST /book
CreateBook(u, name, description) ==
  /\ req' = [NoReq EXCEPT !.op = "create", !.user = u, !.name = name,
                          !.description = description]
  /\ IF SelectName(table, name) # <<>>
     THEN /\ resp' = HTTPException(400, "Book already exists")
          /\ sent' = NoPayload
          /\ UNCHANGED <<table, nextId, now, createdBy, userIdDefault>>
     ELSE /\ nextId <= MaxIds
          /\ LET payload == InsertPayload(name, description, u)
                 after == RemoteInsert(table, payload, u, nextId, userIdDefault)
                 data == <<NewRow(payload, u, nextId, userIdDefault)>>
             IN  /\ sent' = [call |-> "insert", data |-> payload]
                 /\ table' = after
                 /\ resp' = IF data # <<>> THEN Ok(<<data[1]>>)
                            ELSE HTTPException(400, "Something went wrong")
          /\ nextId' = nextId + 1
          /\ createdBy' = [i \in DOMAIN createdBy \cup {nextId} |->
                             IF i = nextId THEN u ELSE createdBy[i]]
          /\ UNCHANGED <<now, userIdDefault>>

\* PUT /book/{book_id}
UpdateBook(u, id, name, description) ==
  /\ req' = [NoReq EXCEPT !.op = "update", !.user = u, !.book_id = id,
                          !.name = name, !.description = description]
  /\ IF SelectName(table, name) # <<>>
     THEN /\ resp' = HTTPException(400, "Book already exists")
          /\ sent' = NoPayload
          /\ UNCHANGED <<table, nextId, now, createdBy, userIdDefault>>
     ELSE /\ now <= MaxClock
          /\ LET data == UpdatePayload(name, description, now)
             IN  /\ sent' = [call |-> "update", data |-> data]
                 /\ table' = RemoteUpdate(table, data, id, u)
                 /\ resp' = IF UpdatedRows(table, data, id, u) # <<>> THEN Ok(<<>>)
                            ELSE HTTPException(404, "Book not found")
          /\ now' = now + 1
          /\ UNCHANGED <<nextId, createdBy, userIdDefault>>

\* DELETE /book/{book_id}
DeleteBook(u, id) ==
  /\ req' = [NoReq EXCEPT !.op = "delete", !.user = u, !.book_id = id]
  /\ sent' = NoPayload
  /\ table' = RemoteDelete(table, id, u)
  /\ resp' = IF DeletedRows(table, id, u) # <<>> THEN Ok(<<>>)
             ELSE HTTPException(404, "Book not found")
  /\ UNCHANGED <<nextId, now, createdBy, userIdDefault>>

\* ---------------------------------------------- Spec: one request at a time
IdleReqs == [r \in 1..MaxReqs |-> [pc |-> "idle", user |-> NullUser, name |-> "",
                                   description |-> NoDescription, status |-> 0,
                                   id |-> 0]]

Init ==
  /\ table = <<>>
  /\ nextId = 1
  /\ now = 1
  /\ createdBy = <<>>
  /\ userIdDefault \in UserIdDefaults
  /\ req = NoReq
  /\ sent = NoPayload
  /\ resp = NoResp
  /\ reqs = IdleReqs
  /\ pc = 0

List == \E u \in Users, page \in 0..MaxPage, limit \in 0..MaxLimit :
          ListBook(u, page, limit)
Create == \E u \in Users, n \in Names, d \in CreateDescriptions :
            CreateBook(u, n, d)
Update == \E u \in Users, id \in BookIds, n \in Names, d \in UpdateDescriptions :
            UpdateBook(u, id, n, d)
Delete == \E u \in Users, id \in BookIds : DeleteBook(u, id)

Next ==
  \/ List /\ UNCHANGED <<reqs, pc>>
  \/ Create /\ UNCHANGED <<reqs, pc>>
  \/ Update /\ UNCHANGED <<reqs, pc>>
  \/ Delete /\ UNCHANGED <<reqs, pc>>

Spec == Init /\ [][Next]_vars

\* ------------------------------------- PageSpec: listing a filled table
\* The table after n creates by U1 and k by U2 (interleaved while both last),
\* every book under its own name, on a schema that defaults user_id to the
\* session's user.
PageOwner(i, n, k) ==
  IF i <= 2 * Min(n, k) THEN (IF i % 2 = 1 THEN "U1" ELSE "U2")
  ELSE IF n > k THEN "U1" ELSE "U2"

PageTable(n, k) ==
  [i \in 1..(n + k) |->
     NewRow(InsertPayload(ToString(i), NoDescription, PageOwner(i, n, k)),
            PageOwner(i, n, k), i, "auth_uid")]

PageInit ==
  /\ \E n \in 0..MaxOwned, k \in 0..MaxForeign :
       /\ table = PageTable(n, k)
       /\ nextId = n + k + 1
       /\ createdBy = [i \in 1..(n + k) |-> PageOwner(i, n, k)]
  /\ now = 1
  /\ userIdDefault = "auth_uid"
  /\ req = NoReq
  /\ sent = NoPayload
  /\ resp = NoResp
  /\ reqs = IdleReqs
  /\ pc = 0

PageList == \E u \in Users, page \in 0..MaxPageP, limit \in 0..MaxLimitP :
              ListBook(u, page, limit)

PageNext == PageList /\ UNCHANGED <<reqs, pc>>

PageSpec == PageInit /\ [][PageNext]_vars

\* ------------------------- ConcSpec: create requests interleaved at awaits
\* A create_book request arrives.
CreateRecv(r, u, name, description) ==
  /\ reqs[r].pc = "idle"
  /\ reqs' = [reqs EXCEPT ![r] = [pc |-> "guard", user |-> u, name |-> name,
                                  description |-> description, status |-> 0,
                                  id |-> 0]]
  /\ UNCHANGED <<table, nextId, now, createdBy, userIdDefault, req, sent, resp, pc>>

\* await tbl.select("name").eq("name", book.name).limit(1).execute()
CreateGuard(r) ==
  /\ reqs[r].pc = "guard"
  /\ reqs' = [reqs EXCEPT ![r] =
                IF SelectName(table, reqs[r].name) # <<>>
                THEN [@ EXCEPT !.pc = "done", !.status = 400]
                ELSE [@ EXCEPT !.pc = "insert"]]
  /\ UNCHANGED <<table, nextId, now, createdBy, userIdDefault, req, sent, resp, pc>>

\* await tbl.insert(book.model_dump()).execute()
CreateInsert(r) ==
  /\ reqs[r].pc = "insert"
  /\ LET payload == InsertPayload(reqs[r].name, reqs[r].description, reqs[r].user)
     IN  table' = RemoteInsert(table, payload, reqs[r].user, nextId, userIdDefault)
  /\ reqs' = [reqs EXCEPT ![r] = [@ EXCEPT !.pc = "done", !.status = 200,
                                           !.id = nextId]]
  /\ nextId' = nextId + 1
  /\ createdBy' = [i \in DOMAIN createdBy \cup {nextId} |->
                     IF i = nextId THEN reqs[r].user ELSE createdBy[i]]
  /\ UNCHANGED <<now, userIdDefault, req, sent, resp, pc>>

ConcNext ==
  \/ \E r \in 1..MaxReqs, u \in Users, n \in Names, d \in Descriptions :
       CreateRecv(r, u, n, d)
  \/ \E r \in 1..MaxReqs : CreateGuard(r)
  \/ \E r \in 1..MaxReqs : CreateInsert(r)

ConcSpec == Init /\ [][ConcNext]_vars

\* --------------------------- ScenarioSpec: the create/update/delete script
\* A table with no book named "Dune" or "Dune2": empty, or one book "X"
\* created earlier by either user.
ScenarioInit ==
  /\ userIdDefault \in UserIdDefaults
  /\ \/ /\ table = <<>>
        /\ nextId = 1
        /\ createdBy = <<>>
     \/ \E u \in Users, d \in Descriptions :
          /\ table = <<NewRow(InsertPayload("X", d, u), u, 1, userIdDefault)>>
          /\ nextId = 2
          /\ createdBy = <<u>>
  /\ now = 1
  /\ req = NoReq
  /\ sent = NoPayload
  /\ resp = NoResp
  /\ reqs = IdleReqs
  /\ pc = 0

\* The id the store gave the scenario's book (it is the last one created).
ScenarioId == nextId - 1

ScenarioCreate ==
  /\ pc = 0
  /\ \E d \in Descriptions : CreateBook("U1", "Dune", d)
  /\ pc' = 1
  /\ UNCHANGED reqs

ScenarioUpdate ==
  /\ pc = 1
  /\ \E d \in Descriptions : UpdateBook("U1", ScenarioId, "Dune2", d)
  /\ pc' = 2
  /\ UNCHANGED reqs

ScenarioList ==
  /\ pc = 2
  /\ ListBook("U1", 1, 10)
  /\ pc' = 3
  /\ UNCHANGED reqs

ScenarioDeleteOther ==
  /\ pc = 3
  /\ DeleteBook("U2", ScenarioId)
  /\ pc' = 4
  /\ UNCHANGED reqs

ScenarioDeleteOwn ==
  /\ pc = 4
  /\ DeleteBook("U1", ScenarioId)
  /\ pc' = 5
  /\ UNCHANGED reqs

ScenarioNext ==
  \/ ScenarioCreate
  \/ ScenarioUpdate
  \/ ScenarioList
  \/ ScenarioDeleteOther
  \/ ScenarioDeleteOwn

ScenarioSpec == ScenarioInit /\ [][ScenarioNext]_vars

\* ================================================================ claims
Rows(tbl) == {tbl[i] : i \in DOMAIN tbl}
RowsWithId(tbl, id) == {r \in Rows(tbl) : r.id = id}
RowsNamed(tbl, name) == {i \in DOMAIN tbl : tbl[i].name = name}

\* C1: list_book called by user B returns only rows whose user_id is B's id,
\* for every page and limit, and never a book that another user created.
C1_ListOnlyOwn ==
  req.op = "list" =>
    \A i \in DOMAIN resp.body :
      /\ resp.body[i].user_id = req.user
      /\ createdBy[resp.body[i].id] = req.user

\* C1 witness: a list that returned a book while another user's book is in
\* the table.
C1_Witness ==
  /\ req.op = "list"
  /\ resp.body # <<>>
  /\ \E r \in Rows(table) : r.user_id \in Users \ {req.user}

\* C2 (as claimed): when create_book passes the guard, the row sent to the
\* remote insert carries the request's name and description and user_id =
\* current_user.id, and the response is the created row.
C2_InsertCarriesUserId ==
  (req.op = "create" /\ sent.call = "insert") =>
    /\ sent.data.name = req.name
    /\ sent.data.description = req.description
    /\ "user_id" \in DOMAIN sent.data
    /\ sent.data.user_id = req.user
    /\ resp.status = 200
    /\ Len(resp.body) = 1
    /\ resp.body[1] \in Rows(table)

\* C3: without interleaving, create_book with a name some row already holds
\* (whoever owns it) fails with 400 "Book already exists", issues no insert
\* and leaves the table unchanged.
C3_DuplicateCreateRejected ==
  [][(req'.op = "create" /\ RowsNamed(table, req'.name) # {}) =>
       /\ resp' = [status |-> 400, detail |-> "Book already exists", body |-> <<>>]
       /\ sent' = NoPayload
       /\ nextId' = nextId
       /\ table' = table]_vars

\* C3 witness: a create rejected for a name held by another user's row.
C3_Witness ==
  /\ req.op = "create"
  /\ resp.status = 400
  /\ \E i \in RowsNamed(table, req.name) : table[i].user_id \in Users \ {req.user}

\* C4 (as claimed): update_book on an existing book of another owner fails
\* with 404 whatever name is submitted, and changes no row.
C4_ForeignUpdateAlwaysNotFound ==
  [][(/\ req'.op = "update"
      /\ \E r \in RowsWithId(table, req'.book_id) :
           r.user_id \in Users \ {req'.user}) =>
       /\ resp'.status = 404
       /\ table' = table]_vars

\* C4 (amended): update_book on an existing book of another owner fails with
\* 404 "Book not found" when no row holds the submitted name and with 400
\* "Book already exists" when some row does; either way no row changes.
C4_ForeignUpdateRejected ==
  [][(/\ req'.op = "update"
      /\ \E r \in RowsWithId(table, req'.book_id) : r.user_id # req'.user) =>
       /\ resp' = IF RowsNamed(table, req'.name) = {}
                  THEN [status |-> 404, detail |-> "Book not found", body |-> <<>>]
                  ELSE [status |-> 400, detail |-> "Book already exists", body |-> <<>>]
       /\ table' = table]_vars

\* C4 witness: an update of another user's book answered 404.
C4_Witness ==
  /\ req.op = "update"
  /\ resp.status = 404
  /\ \E r \in RowsWithId(table, req.book_id) : r.user_id \in Users \ {req.user}

\* C5: delete_book on an existing book of another owner fails with 404 and
\* removes no row; delete_book by the owner removes exactly the row with
\* that id and returns an empty result.
C5_DeleteScoped ==
  [][req'.op = "delete" =>
       /\ (\E r \in RowsWithId(table, req'.book_id) : r.user_id # req'.user) =>
            /\ resp' = [status |-> 404, detail |-> "Book not found", body |-> <<>>]
            /\ table' = table
       /\ (\E r \in RowsWithId(table, req'.book_id) : r.user_id = req'.user) =>
            /\ resp' = [status |-> 200, detail |-> "", body |-> <<>>]
            /\ Len(table') = Len(table) - 1
            /\ Rows(table') = Rows(table) \ RowsWithId(table, req'.book_id)]_vars

\* C5 witness: a delete of another user's book answered 404, the book still
\* in the table.
C5_Witness ==
  /\ req.op = "delete"
  /\ resp.status = 404
  /\ \E r \in RowsWithId(table, req.book_id) : r.user_id \in Users \ {req.user}

\* C6 (as claimed): from a table without "Dune" and "Dune2": create "Dune" as
\* U1 succeeds and returns a row with user_id = U1; the update of that id to
\* "Dune2" as U1 succeeds with an empty body; U1's list then shows the book as
\* "Dune2"; the delete as U2 fails with 404; the delete as U1 succeeds.
C6_Scenario ==
  /\ pc = 1 => /\ resp.status = 200
               /\ Len(resp.body) = 1
               /\ resp.body[1].name = "Dune"
               /\ resp.body[1].user_id = "U1"
  /\ pc = 2 => resp = [status |-> 200, detail |-> "", body |-> <<>>]
  /\ pc = 3 => /\ resp.status = 200
               /\ \E i \in DOMAIN resp.body :
                    resp.body[i].id = ScenarioId /\ resp.body[i].name = "Dune2"
  /\ pc = 4 => resp.status = 404
  /\ pc = 5 => resp.status = 200

\* The k-th (in table order) position holding a row of user u.
OwnPositions(tbl, u) == {i \in DOMAIN tbl : tbl[i].user_id = u}
KthOwn(tbl, u, k) ==
  tbl[CHOOSE i \in OwnPositions(tbl, u) :
        Cardinality({j \in OwnPositions(tbl, u) : j <= i}) = k]

\* C7: for page >= 1 and limit >= 1, list_book returns exactly the caller's
\* books at positions (page-1)*limit+1 .. min(page*limit, N) of the caller's
\* N books in table order.
C7_PageSlice ==
  (req.op = "list" /\ req.page >= 1 /\ req.limit >= 1) =>
    LET N == Cardinality(OwnPositions(table, req.user))
        first == (req.page - 1) * req.limit + 1
        last == Min(req.page * req.limit, N)
    IN  /\ resp.status = 200
        /\ Len(resp.body) = (IF last >= first THEN last - first + 1 ELSE 0)
        /\ \A j \in DOMAIN resp.body :
             resp.body[j] = KthOwn(table, req.user, first + j - 1)

\* C7 witness: 15 own books, page 2, limit 10: the 5 books at positions 11..15.
C7_Witness ==
  /\ req.op = "list" /\ req.page = 2 /\ req.limit = 10
  /\ Cardinality(OwnPositions(table, req.user)) = 15
  /\ Len(table) > 15
  /\ Len(resp.body) = 5
  /\ resp.body[1] = KthOwn(table, req.user, 11)
  /\ resp.body[5] = KthOwn(table, req.user, 15)

\* C8: two create_book requests with the same name that both passed the
\* guard and both inserted leave two rows of that name in the table.
C8_BothInsert ==
  \A r1, r2 \in 1..MaxReqs :
    (/\ r1 # r2
     /\ reqs[r1].status = 200 /\ reqs[r2].status = 200
     /\ reqs[r1].name = reqs[r2].name) =>
       /\ Cardinality(RowsNamed(table, reqs[r1].name)) >= 2
       /\ \E i, j \in RowsNamed(table, reqs[r1].name) :
            table[i].id = reqs[r1].id /\ table[j].id = reqs[r2].id

\* C8 witness: the racy execution: both requests answered 200 for one name.
C8_Witness ==
  /\ reqs[1].status = 200 /\ reqs[2].status = 200
  /\ reqs[1].name = reqs[2].name
  /\ Cardinality(RowsNamed(table, reqs[1].name)) = 2

\* C9: with requests executed one at a time from a table of distinct names,
\* no two rows ever share a name.
C9_NamesDistinct ==
  \A i, j \in DOMAIN table : table[i].name = table[j].name => i = j

\* C9 witness: two books in the table after an accepted update.
C9_Witness ==
  /\ req.op = "update"
  /\ resp.status = 200
  /\ Len(table) = 2

\* C10: update_book by the owner with the book's current name fails with 400
\* "Book already exists" and leaves the row (description, updated_at)
\* unchanged; an owner's update succeeds only when no row holds the name.
C10_OwnNameRejected ==
  [][req'.op = "update" =>
       /\ (\E r \in RowsWithId(table, req'.book_id) :
             r.user_id = req'.user /\ r.name = req'.name) =>
            /\ resp' = [status |-> 400, detail |-> "Book already exists", body |-> <<>>]
            /\ table' = table
       /\ resp'.status = 200 => RowsNamed(table, req'.name) = {}]_vars

\* C10 witness: the owner resubmits the book's name with another description
\* and is answered 400; the row keeps its description.
C10_Witness ==
  /\ req.op = "update"
  /\ resp.status = 400
  /\ \E r \in RowsWithId(table, req.book_id) :
       /\ r.user_id = req.user
       /\ r.name = req.name
       /\ r.description # req.description

====
